---- MODULE Spec2Model ----
(***************************************************************************)
(* Model of the SideBet wager engine: the in-memory store and operations   *)
(* of ApiService.ts (createBet, boostOdds, placeBet, fireBack,              *)
(* respondToFireBack) over the data of MockData.ts and Models.ts.           *)
(*                                                                          *)
(* Units: money is in cents (wallet_balance 100.00 is 10000), odds are in   *)
(* hundredths (2.0 is 200), potential_winnings is in cents.  Every amount   *)
(* passed to an operation is a whole number of dollars, so the products     *)
(* and quotients below are exact.  Time is counted in days from start-up.   *)
(***************************************************************************)
EXTENDS Integers, Sequences, FiniteSets, TLC

VARIABLES users,       \* user_id -> wallet_balance
          bets,        \* bet_id -> Bet
          placedBets,  \* sequence of PlacedBet
          fireBacks,   \* sequence of FireBack
          now,         \* the clock
          calls,       \* calls so far that changed the store
          last,        \* operation and outcome of the most recent call
          requests     \* client -> the placeBet call it has issued, and its outcome

vars == <<users, bets, placedBets, fireBacks, now, calls, last, requests>>

(***************************************************************************)
(* Bounds of the model.                                                    *)
(***************************************************************************)
MaxCalls == 2        \* calls that change the store
MaxTime == 1         \* days the clock advances

\* Clients that issue calls concurrently.
Clients == {"c1", "c2"}

\* Inputs the operations are called with.
UserArgs == {"user101", "ghost"}
AmountArgs == {-2000, 1000, 2000, 20000}
NewOptionKeys == {"A", "B"}
InitialOddsArgs == {200, 300}
MinimumWagerArgs == {0}
ClosingTimeArgs == {0}
NewBetIds == <<"betnew1", "betnew2", "betnew3", "betnew4", "betnew5", "betnew6">>
StakeBetArgs == {"bet002", "betnew1", "nobet"}
OptionArgs(betId) == (IF betId \in DOMAIN bets THEN DOMAIN bets[betId].bet_options ELSE {}) \cup {"nokey"}

(***************************************************************************)
(* MockData.ts                                                             *)
(***************************************************************************)
mockUsers ==
  [u \in {"user123", "user456", "user789", "user101"} |->
     CASE u = "user123" -> 10000
       [] u = "user456" -> 7500
       [] u = "user789" -> 12000
       [] u = "user101" -> 5000]

Opt(odds, total) == [odds |-> odds, total_wagered |-> total]

mockBets ==
  [b \in {"bet001", "bet002", "bet003"} |->
     CASE b = "bet001" ->
            [creator_id |-> "user456",
             bet_options |-> [k \in {"Before 10 PM", "Between 10-12 PM", "After 12 AM"} |->
                                CASE k = "Before 10 PM" -> Opt(200, 2000)
                                  [] k = "Between 10-12 PM" -> Opt(150, 3000)
                                  [] k = "After 12 AM" -> Opt(250, 1500)],
             bet_closing_time |-> 1, status |-> "open",
             minimum_wager |-> 0, winning_option |-> ""]
       [] b = "bet002" ->
            [creator_id |-> "user789",
             bet_options |-> [k \in {"Yes", "No"} |->
                                IF k = "Yes" THEN Opt(180, 4000) ELSE Opt(220, 2500)],
             bet_closing_time |-> 2, status |-> "open",
             minimum_wager |-> 0, winning_option |-> ""]
       [] b = "bet003" ->
            [creator_id |-> "user101",
             bet_options |-> [k \in {"Less than 5 miles", "5-10 miles", "More than 10 miles"} |->
                                CASE k = "Less than 5 miles" -> Opt(150, 3000)
                                  [] k = "5-10 miles" -> Opt(200, 2500)
                                  [] k = "More than 10 miles" -> Opt(300, 1000)],
             bet_closing_time |-> 3, status |-> "open",
             minimum_wager |-> 0, winning_option |-> ""]]

mockPlacedBets ==
  << [user_id |-> "user123", bet_id |-> "bet002", selected_option |-> "Yes",
      amount |-> 1000, potential_winnings |-> 1800],
     [user_id |-> "user789", bet_id |-> "bet001", selected_option |-> "After 12 AM",
      amount |-> 1500, potential_winnings |-> 3750] >>

(***************************************************************************)
(* Arithmetic helpers                                                      *)
(***************************************************************************)
Max(a, b) == IF a >= b THEN a ELSE b

RECURSIVE GCD(_, _)
GCD(a, b) == IF b = 0 THEN a ELSE GCD(b, a % b)

RECURSIVE SumOver(_, _)
\* Object.values(bet.bet_options).reduce((sum, opt) => sum + opt.total_wagered, 0)
SumOver(opts, keys) ==
  IF keys = {} THEN 0
  ELSE LET k == CHOOSE x \in keys : TRUE
       IN opts[k].total_wagered + SumOver(opts, keys \ {k})

TotalWagered(opts) == SumOver(opts, DOMAIN opts)

\* (1 / proportion) * 0.95 is evaluated in IEEE doubles.  When the exact value
\* 0.95 * total / wagered lies halfway between two hundredths, the double is
\* just above or just below the tie and toFixed(2) follows it.  These are the
\* reduced ratios <<total, wagered>> (total <= 60) whose double lies above.
FloatTieUp ==
  { <<5, 2>>, <<15, 2>>, <<19, 2>>, <<23, 10>>, <<25, 2>>, <<35, 2>>, <<39, 10>>,
    <<41, 10>>, <<43, 2>>, <<45, 2>>, <<47, 38>>, <<49, 2>>, <<55, 2>>, <<55, 38>>,
    <<57, 10>>, <<59, 10>>, <<59, 38>> }

\* DynamicOdds without Math.max(1.1, ...).
DynamicOddsNoFloor(wagered, total) ==
  LET num == 95 * total
      q == num \div wagered
      r == num % wagered
      g == GCD(total, wagered)
  IN IF 2 * r < wagered THEN q
     ELSE IF 2 * r > wagered THEN q + 1
     ELSE IF <<total \div g, wagered \div g>> \in FloatTieUp THEN q + 1 ELSE q

\* parseFloat(Math.max(1.1, (1 / (wagered / total)) * 0.95).toFixed(2)), in hundredths,
\* for wagered > 0 and total > 0.
DynamicOdds(wagered, total) ==
  LET num == 95 * total
      q == num \div wagered
      r == num % wagered
      g == GCD(total, wagered)
  IN IF num < 110 * wagered THEN 110
     ELSE IF 2 * r < wagered THEN q
     ELSE IF 2 * r > wagered THEN q + 1
     ELSE IF <<total \div g, wagered \div g>> \in FloatTieUp THEN q + 1 ELSE q

\* parseFloat(Math.max(1.1, odds - amount / 100).toFixed(2)), in hundredths.
BoostedOdds(odds, amount) ==
  LET v == odds * 100 - amount   \* in units of 1/10000
      m == Max(11000, v)
  IN (m + 50) \div 100

(***************************************************************************)
(* ApiService.ts: in-memory storage                                        *)
(***************************************************************************)
Ok == "ok"
NotFound == "NotFound"                    \* 'Bet or bet option not found', 'Bet not found', 'Fire Back not found'
NotOpen == "NotOpen"                      \* 'Bet is not open for wagering'
InsufficientFunds == "InsufficientFunds"  \* 'Insufficient funds'

Result(op, err) == [op |-> op, err |-> err]

\* The call count after a call that ended with err.
Counted(err) == IF err = Ok THEN calls + 1 ELSE calls

\* A client that has no call in flight.
Idle == [pc |-> "idle", bet_id |-> "", user_id |-> "", selected_option |-> "",
         amount |-> 0, seen_balance |-> 0, err |-> ""]

Init ==
  /\ users = mockUsers
  /\ bets = mockBets
  /\ placedBets = mockPlacedBets
  /\ fireBacks = <<>>
  /\ now = 0
  /\ calls = 0
  /\ last = Result("init", Ok)
  /\ requests = [c \in Clients |-> Idle]

NumCreated == Cardinality(DOMAIN bets) - Cardinality(DOMAIN mockBets)

\* generateId('bet'): an id no stored bet has.
generateId == NewBetIds[NumCreated + 1]

(***************************************************************************)
(* createBet                                                               *)
(***************************************************************************)
FormattedOptions(betOptions) ==
  [key \in DOMAIN betOptions |-> [odds |-> 200, total_wagered |-> 0]]

createBet(creatorId, betOptions, betClosingTime, minimumWager) ==
  /\ bets' = bets @@ (generateId :>
       [creator_id |-> creatorId,
        bet_options |-> FormattedOptions(betOptions),
        bet_closing_time |-> betClosingTime,
        status |-> "bid",
        minimum_wager |-> IF minimumWager > 0 THEN minimumWager ELSE 0,
        winning_option |-> ""])
  /\ calls' = calls + 1
  /\ last' = Result("createBet", Ok)
  /\ UNCHANGED <<users, placedBets, fireBacks, now>>

(***************************************************************************)
(* placeBet                                                                *)
(***************************************************************************)
\* PlaceBetError without the comparison of the balance with the amount.
PlaceBetErrorNoFundsCheck(betId, userId, selectedOption, amount) ==
  IF betId \notin DOMAIN bets THEN NotFound
  ELSE IF selectedOption \notin DOMAIN bets[betId].bet_options THEN NotFound
  ELSE IF bets[betId].status # "bid" /\ bets[betId].status # "open" THEN NotOpen
  ELSE IF userId \notin DOMAIN users THEN InsufficientFunds
  ELSE Ok

\* PlaceBetError without the check of the bet's status.
PlaceBetErrorNoStatusCheck(betId, userId, selectedOption, amount) ==
  IF betId \notin DOMAIN bets THEN NotFound
  ELSE IF selectedOption \notin DOMAIN bets[betId].bet_options THEN NotFound
  ELSE IF userId \notin DOMAIN users THEN InsufficientFunds
  ELSE IF users[userId] < amount THEN InsufficientFunds
  ELSE Ok

\* PlaceBetError with the amount compared with the balance loaded at start-up
\* instead of the stored one.
PlaceBetErrorStaleBalance(betId, userId, selectedOption, amount) ==
  IF betId \notin DOMAIN bets THEN NotFound
  ELSE IF selectedOption \notin DOMAIN bets[betId].bet_options THEN NotFound
  ELSE IF bets[betId].status # "bid" /\ bets[betId].status # "open" THEN NotOpen
  ELSE IF userId \notin DOMAIN users THEN InsufficientFunds
  ELSE IF mockUsers[userId] < amount THEN InsufficientFunds
  ELSE Ok

\* The throws of placeBet, in the order the code reaches them.
PlaceBetError(betId, userId, selectedOption, amount) ==
  IF betId \notin DOMAIN bets THEN NotFound
  ELSE IF selectedOption \notin DOMAIN bets[betId].bet_options THEN NotFound
  ELSE IF bets[betId].status # "bid" /\ bets[betId].status # "open" THEN NotOpen
  ELSE IF userId \notin DOMAIN users THEN InsufficientFunds
  ELSE IF users[userId] < amount THEN InsufficientFunds
  ELSE Ok

\* PlaceBetUsers with the debit moved before the check of the bet's status.
PlaceBetUsersDebitFirst(betId, userId, selectedOption, amount) ==
  IF /\ betId \in DOMAIN bets
     /\ selectedOption \in DOMAIN bets[betId].bet_options
     /\ userId \in DOMAIN users
     /\ users[userId] >= amount
  THEN [users EXCEPT ![userId] = @ - amount]
  ELSE users

\* user.wallet_balance -= amount, reached only when nothing was thrown.
PlaceBetUsers(betId, userId, selectedOption, amount) ==
  IF PlaceBetError(betId, userId, selectedOption, amount) = Ok
  THEN [users EXCEPT ![userId] = @ - amount]
  ELSE users

\* option.total_wagered += amount
StakedOptions(options, selectedOption, amount) ==
  [options EXCEPT ![selectedOption].total_wagered = @ + amount]

\* AllOptionsHaveWagers with some() in place of every().
SomeOptionHasWagers(options) ==
  \E k \in DOMAIN options : options[k].total_wagered > 0

AllOptionsHaveWagers(options) ==
  \A k \in DOMAIN options : options[k].total_wagered > 0

\* StatusAfterStake deriving the status from the wagers on every stake.
StatusFromWagers(status, options) ==
  IF AllOptionsHaveWagers(options) THEN "open" ELSE "bid"

StatusAfterStake(status, options) ==
  IF status = "bid" /\ AllOptionsHaveWagers(options) THEN "open" ELSE status

\* The forEach over Object.keys(bet.bet_options).
RecomputedOptions(options) ==
  LET totalWagered == TotalWagered(options)
  IN [optKey \in DOMAIN options |->
        IF options[optKey].total_wagered > 0 /\ totalWagered > 0
        THEN [options[optKey] EXCEPT
                !.odds = DynamicOdds(options[optKey].total_wagered, totalWagered)]
        ELSE options[optKey]]

BetAfterStake(bet, selectedOption, amount) ==
  LET staked == StakedOptions(bet.bet_options, selectedOption, amount)
  IN [bet EXCEPT !.status = StatusAfterStake(bet.status, staked),
                 !.bet_options = RecomputedOptions(staked)]

\* PlaceBetBets with the stake applied to the bet as it was loaded at start-up
\* instead of the stored one.
PlaceBetBetsFromSnapshot(betId, userId, selectedOption, amount) ==
  IF PlaceBetError(betId, userId, selectedOption, amount) = Ok
  THEN [bets EXCEPT ![betId] =
          BetAfterStake(IF betId \in DOMAIN mockBets THEN mockBets[betId] ELSE @,
                        selectedOption, amount)]
  ELSE bets

PlaceBetBets(betId, userId, selectedOption, amount) ==
  IF PlaceBetError(betId, userId, selectedOption, amount) = Ok
  THEN [bets EXCEPT ![betId] = BetAfterStake(@, selectedOption, amount)]
  ELSE bets

\* PotentialWinnings with the odds read before the stake is recorded.
PotentialWinningsBeforeStake(bet, selectedOption, amount) ==
  (amount * bet.bet_options[selectedOption].odds) \div 100

\* amount * option.odds, read after the odds were recomputed.
PotentialWinnings(bet, selectedOption, amount) ==
  (amount * BetAfterStake(bet, selectedOption, amount).bet_options[selectedOption].odds) \div 100

\* PlaceBetPlacedBets that also reprices the earlier PlacedBets on the staked
\* option at the recomputed odds.
PlaceBetPlacedBetsRepricing(betId, userId, selectedOption, amount) ==
  IF PlaceBetError(betId, userId, selectedOption, amount) = Ok
  THEN Append([i \in 1..Len(placedBets) |->
                 IF placedBets[i].bet_id = betId /\ placedBets[i].selected_option = selectedOption
                 THEN [placedBets[i] EXCEPT !.potential_winnings =
                         PotentialWinnings(bets[betId], selectedOption, placedBets[i].amount)]
                 ELSE placedBets[i]],
         [user_id |-> userId, bet_id |-> betId, selected_option |-> selectedOption,
          amount |-> amount,
          potential_winnings |-> PotentialWinnings(bets[betId], selectedOption, amount)])
  ELSE placedBets

PlaceBetPlacedBets(betId, userId, selectedOption, amount) ==
  IF PlaceBetError(betId, userId, selectedOption, amount) = Ok
  THEN Append(placedBets,
         [user_id |-> userId, bet_id |-> betId, selected_option |-> selectedOption,
          amount |-> amount,
          potential_winnings |-> PotentialWinnings(bets[betId], selectedOption, amount)])
  ELSE placedBets

placeBet(betId, userId, selectedOption, amount) ==
  /\ last' = Result("placeBet", PlaceBetError(betId, userId, selectedOption, amount))
  /\ calls' = Counted(PlaceBetError(betId, userId, selectedOption, amount))
  /\ users' = PlaceBetUsers(betId, userId, selectedOption, amount)
  /\ bets' = PlaceBetBets(betId, userId, selectedOption, amount)
  /\ placedBets' = PlaceBetPlacedBets(betId, userId, selectedOption, amount)
  /\ UNCHANGED <<fireBacks, now>>

(***************************************************************************)
(* boostOdds                                                               *)
(***************************************************************************)
BoostOddsError(betId, userId, betOption, amount) ==
  IF betId \notin DOMAIN bets THEN NotFound
  ELSE IF betOption \notin DOMAIN bets[betId].bet_options THEN NotFound
  ELSE IF userId \notin DOMAIN users THEN InsufficientFunds
  ELSE IF users[userId] < amount THEN InsufficientFunds
  ELSE Ok

BoostOddsUsers(betId, userId, betOption, amount) ==
  IF BoostOddsError(betId, userId, betOption, amount) = Ok
  THEN [users EXCEPT ![userId] = @ - amount]
  ELSE users

\* BoostedOption that changes the odds but does not add the amount to the pool.
BoostedOptionOddsOnly(option, amount) ==
  [odds |-> BoostedOdds(option.odds, amount),
   total_wagered |-> option.total_wagered]

\* option.total_wagered += amount; option.odds = max(1.1, option.odds - amount / 100)
BoostedOption(option, amount) ==
  [odds |-> BoostedOdds(option.odds, amount),
   total_wagered |-> option.total_wagered + amount]

BoostOddsBets(betId, userId, betOption, amount) ==
  IF BoostOddsError(betId, userId, betOption, amount) = Ok
  THEN [bets EXCEPT ![betId].bet_options[betOption] = BoostedOption(@, amount)]
  ELSE bets

boostOdds(betId, userId, betOption, amount) ==
  /\ last' = Result("boostOdds", BoostOddsError(betId, userId, betOption, amount))
  /\ calls' = Counted(BoostOddsError(betId, userId, betOption, amount))
  /\ users' = BoostOddsUsers(betId, userId, betOption, amount)
  /\ bets' = BoostOddsBets(betId, userId, betOption, amount)
  /\ UNCHANGED <<placedBets, fireBacks, now>>

(***************************************************************************)
(* fireBack, respondToFireBack                                             *)
(***************************************************************************)
\* generateId('fb'): the fire_back_id returned for the i-th FireBack created.
NewFireBackIds == <<"fb1", "fb2", "fb3", "fb4", "fb5", "fb6">>

FireBackError(betId, userId, newWager) ==
  IF betId \notin DOMAIN bets THEN NotFound
  ELSE IF bets[betId].status # "open" THEN NotOpen
  ELSE IF userId \notin DOMAIN users THEN InsufficientFunds
  ELSE IF users[userId] < newWager THEN InsufficientFunds
  ELSE Ok

FireBackRecords(betId, userId, newWager) ==
  IF FireBackError(betId, userId, newWager) = Ok
  THEN Append(fireBacks,
         [user_id |-> userId, bet_id |-> betId, new_wager |-> newWager, status |-> "pending"])
  ELSE fireBacks

\* fireBack holding the new wager back from the challenger's balance.
fireBackEscrow(betId, userId, newWager) ==
  /\ fireBacks' = FireBackRecords(betId, userId, newWager)
  /\ users' = IF FireBackError(betId, userId, newWager) = Ok
              THEN [users EXCEPT ![userId] = @ - newWager] ELSE users
  /\ calls' = Counted(FireBackError(betId, userId, newWager))
  /\ last' = Result("fireBack", FireBackError(betId, userId, newWager))
  /\ UNCHANGED <<bets, placedBets, now>>

fireBack(betId, userId, newWager) ==
  /\ fireBacks' = FireBackRecords(betId, userId, newWager)
  /\ calls' = Counted(FireBackError(betId, userId, newWager))
  /\ last' = Result("fireBack", FireBackError(betId, userId, newWager))
  /\ UNCHANGED <<users, bets, placedBets, now>>

\* fireBacks.find(fb => fb.bet_id === fireBackId): index of the first match, 0 if none.
FindFireBack(fireBackId) ==
  LET hits == {i \in 1..Len(fireBacks) : fireBacks[i].bet_id = fireBackId}
  IN IF hits = {} THEN 0 ELSE CHOOSE i \in hits : \A j \in hits : i <= j

RespondError(fireBackId, accept) ==
  IF FindFireBack(fireBackId) = 0 THEN NotFound ELSE Ok

RespondRecords(fireBackId, accept) ==
  IF RespondError(fireBackId, accept) = Ok
  THEN [fireBacks EXCEPT ![FindFireBack(fireBackId)].status =
          IF accept THEN "matched" ELSE "declined"]
  ELSE fireBacks

respondToFireBack(fireBackId, accept) ==
  /\ fireBacks' = RespondRecords(fireBackId, accept)
  /\ calls' = Counted(RespondError(fireBackId, accept))
  /\ last' = Result("respondToFireBack", RespondError(fireBackId, accept))
  /\ UNCHANGED <<users, bets, placedBets, now>>

(***************************************************************************)
(* Bet lifecycle past open, and settlement.  ApiService.ts has no writer   *)
(* of locked, disputed or settled; these follow the design's sections 4.3  *)
(* and 4.6.                                                                 *)
(***************************************************************************)
AlreadySettled == "AlreadySettled"
NotSettleable == "NotSettleable"
InvalidWinningOption == "InvalidWinningOption"

lockBet(betId) ==
  /\ betId \in DOMAIN bets
  /\ bets[betId].status = "open"
  /\ bets' = [bets EXCEPT ![betId].status = "locked"]
  /\ calls' = calls + 1
  /\ last' = Result("lockBet", Ok)
  /\ UNCHANGED <<users, placedBets, fireBacks, now>>

disputeBet(betId) ==
  /\ betId \in DOMAIN bets
  /\ bets[betId].status = "open"
  /\ bets' = [bets EXCEPT ![betId].status = "disputed"]
  /\ calls' = calls + 1
  /\ last' = Result("disputeBet", Ok)
  /\ UNCHANGED <<users, placedBets, fireBacks, now>>

\* SettleError without the guard on a bet that is already settled.
SettleErrorNoSettledGuard(betId, winningOption) ==
  IF betId \notin DOMAIN bets THEN NotFound
  ELSE IF bets[betId].status \notin {"locked", "disputed", "settled"} THEN NotSettleable
  ELSE IF winningOption \notin DOMAIN bets[betId].bet_options THEN InvalidWinningOption
  ELSE Ok

SettleError(betId, winningOption) ==
  IF betId \notin DOMAIN bets THEN NotFound
  ELSE IF bets[betId].status = "settled" THEN AlreadySettled
  ELSE IF bets[betId].status \notin {"locked", "disputed"} THEN NotSettleable
  ELSE IF winningOption \notin DOMAIN bets[betId].bet_options THEN InvalidWinningOption
  ELSE Ok

\* Ledger.credit: adds amount; amount may be >= 0.
Credit(balance, amount) == IF amount >= 0 THEN balance + amount ELSE balance

RECURSIVE Payouts(_, _, _, _)
\* For every PlacedBet on the bet, in order: credit potential_winnings to a winner.
Payouts(balances, betId, winningOption, i) ==
  IF i > Len(placedBets) THEN balances
  ELSE LET pb == placedBets[i]
           paid == IF pb.bet_id = betId /\ pb.selected_option = winningOption
                   THEN [balances EXCEPT ![pb.user_id] = Credit(@, pb.potential_winnings)]
                   ELSE balances
       IN Payouts(paid, betId, winningOption, i + 1)

settle(betId, winningOption) ==
  /\ users' = IF SettleError(betId, winningOption) = Ok
              THEN Payouts(users, betId, winningOption, 1) ELSE users
  /\ bets' = IF SettleError(betId, winningOption) = Ok
             THEN [bets EXCEPT ![betId].status = "settled",
                               ![betId].winning_option = winningOption]
             ELSE bets
  /\ calls' = Counted(SettleError(betId, winningOption))
  /\ last' = Result("settle", SettleError(betId, winningOption))
  /\ UNCHANGED <<placedBets, fireBacks, now>>

\* The clock.
tick ==
  /\ now < MaxTime
  /\ now' = now + 1
  /\ last' = Result("tick", Ok)
  /\ UNCHANGED <<users, bets, placedBets, fireBacks, calls>>

(***************************************************************************)
(* Specification                                                           *)
(***************************************************************************)
\* Arguments of the calls.
FireBackIdArgs == {"bet002", "fb1"}
WagerArgs == {3000, 20000}

Next ==
  /\ \/ \E betOptions \in [NewOptionKeys -> InitialOddsArgs], betClosingTime \in ClosingTimeArgs,
           minimumWager \in MinimumWagerArgs :
          createBet("user123", betOptions, betClosingTime, minimumWager)
     \/ \E betId \in StakeBetArgs, userId \in UserArgs, amount \in AmountArgs :
          \E selectedOption \in OptionArgs(betId) :
            placeBet(betId, userId, selectedOption, amount)
     \/ \E betId \in StakeBetArgs, userId \in UserArgs, amount \in AmountArgs :
          \E betOption \in OptionArgs(betId) :
            boostOdds(betId, userId, betOption, amount)
     \/ \E betId \in StakeBetArgs, userId \in UserArgs, newWager \in WagerArgs :
          fireBack(betId, userId, newWager)
     \/ \E fireBackId \in FireBackIdArgs, accept \in BOOLEAN :
          respondToFireBack(fireBackId, accept)
     \/ \E betId \in StakeBetArgs : lockBet(betId)
     \/ \E betId \in StakeBetArgs : disputeBet(betId)
     \/ \E betId \in StakeBetArgs :
          \E winningOption \in OptionArgs(betId) : settle(betId, winningOption)
     \/ tick
  /\ calls' <= MaxCalls
  /\ UNCHANGED requests

Spec == Init /\ [][Next]_vars

(***************************************************************************)
(* A fresh two-option bet staked on by two users, locked and settled.      *)
(***************************************************************************)
MaxPoolCalls == 5
PoolUserArgs == {"user123", "user456"}
PoolAmountArgs == {-1000, 1000, 2000}

NextPool ==
  /\ \/ \E betOptions \in [NewOptionKeys -> InitialOddsArgs] :
          /\ NumCreated = 0
          /\ createBet("user123", betOptions, 1, 0)
     \/ \E userId \in PoolUserArgs, amount \in PoolAmountArgs, selectedOption \in NewOptionKeys :
          placeBet("betnew1", userId, selectedOption, amount)
     \/ lockBet("betnew1")
     \/ \E winningOption \in NewOptionKeys : settle("betnew1", winningOption)
  /\ calls' <= MaxPoolCalls
  /\ UNCHANGED requests

SpecPool == Init /\ [][NextPool]_vars

(***************************************************************************)
(* Two clients staking at the same time.  A client's call is first issued  *)
(* (its handler is queued) and later run; placeBet has no await, so once   *)
(* started its body runs to the end before any other handler starts.       *)
(***************************************************************************)
ConcUserArgs == {"user101", "user123"}
ConcAmountArgs == {1000, 3000, 6000}
ConcBetArgs == {"bet002", "betnew1"}
ConcMinimumWagerArgs == {0, 2000}

\* The client calls ApiService.placeBet(betId, userId, selectedOption, amount).
issuePlaceBet(c, betId, userId, selectedOption, amount) ==
  /\ requests[c].pc = "idle"
  /\ requests' = [requests EXCEPT ![c] =
       [pc |-> "issued", bet_id |-> betId, user_id |-> userId,
        selected_option |-> selectedOption, amount |-> amount,
        seen_balance |-> users[userId], err |-> ""]]
  /\ last' = Result("issuePlaceBet", Ok)
  /\ UNCHANGED <<users, bets, placedBets, fireBacks, now, calls>>

\* The body of the call runs, start to end, and the promise settles.
runPlaceBet(c) ==
  LET r == requests[c]
  IN /\ r.pc = "issued"
     /\ placeBet(r.bet_id, r.user_id, r.selected_option, r.amount)
     /\ requests' = [requests EXCEPT ![c].pc = "settled",
                                     ![c].err = PlaceBetError(r.bet_id, r.user_id,
                                                              r.selected_option, r.amount)]

NextConc ==
  \/ \E betOptions \in [NewOptionKeys -> InitialOddsArgs],
        minimumWager \in ConcMinimumWagerArgs :
       /\ NumCreated = 0
       /\ createBet("user789", betOptions, 1, minimumWager)
       /\ UNCHANGED requests
  \/ \E c \in Clients, betId \in ConcBetArgs \cap DOMAIN bets,
        userId \in ConcUserArgs, amount \in ConcAmountArgs :
       \E selectedOption \in DOMAIN bets[betId].bet_options :
         /\ NumCreated = 1
         /\ issuePlaceBet(c, betId, userId, selectedOption, amount)
  \/ \E c \in Clients : runPlaceBet(c)

SpecConc == Init /\ [][NextConc]_vars

(***************************************************************************)
(* Fire Backs on a start-up bet and on a created one, with the creator's   *)
(* own stake, the bet's closing and the clock running past closing time.   *)
(***************************************************************************)
MaxFireCalls == 3    \* calls that change the store
MaxFireTime == 2     \* days the clock advances

FireBetArgs == {"bet001", "betnew1", "nobet"}
FireUserArgs == {"user456", "user101"}
FireWagerArgs == {1000, 3000}
FireStakeArgs == {2000}

\* The clock, up to the given day.
tickUntil(limit) ==
  /\ now < limit
  /\ now' = now + 1
  /\ last' = Result("tick", Ok)
  /\ UNCHANGED <<users, bets, placedBets, fireBacks, calls>>

NextFire ==
  /\ \/ \E betOptions \in [NewOptionKeys -> InitialOddsArgs] :
          /\ NumCreated = 0
          /\ createBet("user456", betOptions, 1, 0)
     \/ \E betId \in FireBetArgs, userId \in FireUserArgs, newWager \in FireWagerArgs :
          fireBack(betId, userId, newWager)
     \/ \E fireBackId \in FireBetArgs, accept \in BOOLEAN :
          respondToFireBack(fireBackId, accept)
     \/ \E amount \in FireStakeArgs :
          placeBet("bet001", mockBets["bet001"].creator_id, "Before 10 PM", amount)
     \/ lockBet("bet001")
     \/ disputeBet("bet001")
     \/ \E winningOption \in DOMAIN mockBets["bet001"].bet_options :
          settle("bet001", winningOption)
     \/ tickUntil(MaxFireTime)
  /\ calls' <= MaxFireCalls
  /\ UNCHANGED requests

SpecFire == Init /\ [][NextFire]_vars

TypeOK ==
  /\ DOMAIN users = DOMAIN mockUsers
  /\ \A b \in DOMAIN bets : bets[b].status \in {"bid", "open", "locked", "settled", "disputed"}
  /\ now \in Nat
  /\ \A c \in Clients : requests[c].pc \in {"idle", "issued", "settled"}

(***************************************************************************)
(* Properties                                                              *)
(***************************************************************************)
\* The arguments staking calls are made with.
AllUserArgs == UserArgs \cup PoolUserArgs
AllAmountArgs == AmountArgs \cup PoolAmountArgs

\* The call reaches the debit: the bet and the option exist and the bet takes stakes.
ReachesDebit(betId, selectedOption) ==
  /\ betId \in DOMAIN bets
  /\ selectedOption \in DOMAIN bets[betId].bet_options
  /\ bets[betId].status \in {"bid", "open"}

\* A staking call with these arguments asks for more than the user's balance.
Overdraws(userId, amount) == userId \in DOMAIN users /\ amount > users[userId]

\* C1: every wallet_balance is >= 0 in every reachable state; a placeBet or
\* boostOdds whose amount exceeds the user's balance fails, with 'Insufficient
\* funds' when it reaches the debit; and a failed staking call leaves every
\* balance unchanged.
C1_NoNegativeBalance ==
  /\ [](\A u \in DOMAIN users : users[u] >= 0)
  /\ [](\A betId \in StakeBetArgs, userId \in AllUserArgs, amount \in AllAmountArgs :
          \A option \in OptionArgs(betId) :
            Overdraws(userId, amount) =>
              /\ PlaceBetError(betId, userId, option, amount) # Ok
              /\ BoostOddsError(betId, userId, option, amount) # Ok
              /\ ReachesDebit(betId, option) =>
                   /\ PlaceBetError(betId, userId, option, amount) = InsufficientFunds
                   /\ BoostOddsError(betId, userId, option, amount) = InsufficientFunds)
  /\ [][(last'.op \in {"placeBet", "boostOdds"} /\ last'.err # Ok) => users' = users]_vars

\* A staking call on an existing bet was refused for lack of funds.
C1_Witness ==
  /\ last \in {Result("placeBet", InsufficientFunds), Result("boostOdds", InsufficientFunds)}
  /\ \A u \in DOMAIN users : users[u] >= 0 /\ users[u] < 20000

\* C2: placeBet on an existing option of a bet whose status is locked, settled or
\* disputed fails with 'Bet is not open for wagering' and changes neither the
\* balances, the bets nor the PlacedBets.
C2_ClosedBetRefusesStake ==
  [][last'.op = "placeBet" =>
       \A betId \in DOMAIN bets :
         bets[betId].status \in {"locked", "settled", "disputed"} =>
           \A option \in DOMAIN bets[betId].bet_options,
              userId \in AllUserArgs, amount \in AllAmountArgs :
             placeBet(betId, userId, option, amount)
             => /\ last'.err = NotOpen
                /\ UNCHANGED <<users, bets, placedBets>>]_vars

\* placeBet was refused on a bet that had been locked, disputed or settled.
C2_Witness ==
  /\ last = Result("placeBet", NotOpen)
  /\ \E b \in DOMAIN bets : bets[b].status \in {"locked", "settled", "disputed"}

\* C3: placeBet of a positive amount on an existing option of a bet with stored
\* status bid or open and now > bet_closing_time fails with 'Bet is not open for
\* wagering' and records no stake.
C3_PastClosingTimeRefusesStake ==
  [][last'.op = "placeBet" =>
       \A betId \in DOMAIN bets :
         (bets[betId].status \in {"bid", "open"} /\ now > bets[betId].bet_closing_time) =>
           \A option \in DOMAIN bets[betId].bet_options,
              userId \in AllUserArgs, amount \in {a \in AllAmountArgs : a > 0} :
             placeBet(betId, userId, option, amount)
             => /\ last'.err = NotOpen
                /\ UNCHANGED <<users, bets, placedBets>>]_vars

\* C4: a successful placeBet on a bet in status bid leaves it open if every option
\* has total_wagered > 0 after the stake, and bid otherwise.
C4_BidToOpen ==
  [][(last'.op = "placeBet" /\ last'.err = Ok) =>
       \A betId \in DOMAIN bets :
         (bets[betId].status = "bid" /\ bets'[betId] # bets[betId]) =>
           LET backed == \A k \in DOMAIN bets'[betId].bet_options :
                            bets'[betId].bet_options[k].total_wagered > 0
           IN bets'[betId].status = (IF backed THEN "open" ELSE "bid")]_vars

\* The second stake on a created bet backed its other option and opened the bet.
C4_Witness ==
  /\ last = Result("placeBet", Ok)
  /\ Len(placedBets) = Len(mockPlacedBets) + 2
  /\ placedBets[3].bet_id = "betnew1" /\ placedBets[4].bet_id = "betnew1"
  /\ placedBets[3].amount > 0 /\ placedBets[4].amount > 0
  /\ placedBets[3].selected_option # placedBets[4].selected_option
  /\ bets["betnew1"].status = "open"

\* max(1.1, 0.95 * total / wagered) rounded half-up to 2 decimals, in hundredths.
HalfUpOdds(wagered, total) ==
  Max(110, (2 * 95 * total + wagered) \div (2 * wagered))

\* C5: after a successful placeBet of a positive amount every option of the bet
\* with total_wagered > 0 has odds max(1.1, 0.95 * total / total_wagered) rounded
\* to 2 decimals.
C5_OddsOfBackedOptions ==
  [][(last'.op = "placeBet" /\ last'.err = Ok /\ placedBets'[Len(placedBets')].amount > 0) =>
       \A betId \in DOMAIN bets :
         bets'[betId] # bets[betId] =>
           \A k \in DOMAIN bets'[betId].bet_options :
             LET opt == bets'[betId].bet_options[k]
             IN opt.total_wagered > 0 =>
                  opt.odds = HalfUpOdds(opt.total_wagered, TotalWagered(bets'[betId].bet_options))]_vars

\* C6: after a successful placeBet of a positive amount that leaves the pool > 0,
\* every option of the bet with total_wagered = 0 has odds 10.0.
C6_OddsOfUnbackedOptions ==
  [][(last'.op = "placeBet" /\ last'.err = Ok /\ placedBets'[Len(placedBets')].amount > 0) =>
       \A betId \in DOMAIN bets :
         (bets'[betId] # bets[betId] /\ TotalWagered(bets'[betId].bet_options) > 0) =>
           \A k \in DOMAIN bets'[betId].bet_options :
             bets'[betId].bet_options[k].total_wagered = 0 =>
               bets'[betId].bet_options[k].odds = 1000]_vars

\* Every option of the bet has money on it.
FullyBacked(betId) ==
  \A k \in DOMAIN bets[betId].bet_options : bets[betId].bet_options[k].total_wagered > 0

\* C7: in a bet whose options all have total_wagered > 0, every option's odds
\* are >= 1.1.
C7_OddsFloor ==
  \A betId \in DOMAIN bets :
    FullyBacked(betId) =>
      \A k \in DOMAIN bets[betId].bet_options : bets[betId].bet_options[k].odds >= 110

\* A stake left a fully backed bet with an option priced at the floor.
C7_Witness ==
  /\ last = Result("placeBet", Ok)
  /\ \E betId \in DOMAIN bets :
       /\ FullyBacked(betId)
       /\ \E k \in DOMAIN bets[betId].bet_options : bets[betId].bet_options[k].odds = 110

\* C8: the PlacedBet of a successful placeBet of a positive amount has
\* potential_winnings = amount * the odds the chosen option had before the stake
\* was recorded.
C8_LockedInOdds ==
  [][(last'.op = "placeBet" /\ last'.err = Ok) =>
       LET pb == placedBets'[Len(placedBets')]
       IN pb.amount > 0 => pb.potential_winnings =
            (pb.amount * bets[pb.bet_id].bet_options[pb.selected_option].odds) \div 100]_vars

\* The scenario of C9: on a created bet still holding both stakes, user123 staked
\* 20 on A and then user456 staked 10 on B.
C9_Scenario ==
  /\ "betnew1" \in DOMAIN bets
  /\ Len(placedBets) = Len(mockPlacedBets) + 2
  /\ placedBets[3] = [user_id |-> "user123", bet_id |-> "betnew1", selected_option |-> "A",
                      amount |-> 2000, potential_winnings |-> placedBets[3].potential_winnings]
  /\ placedBets[4] = [user_id |-> "user456", bet_id |-> "betnew1", selected_option |-> "B",
                      amount |-> 1000, potential_winnings |-> placedBets[4].potential_winnings]

\* C9: in the scenario user123's PlacedBet carries potential_winnings 22.00, and
\* once the bet is settled on A user123 has been credited 22.00 and user456
\* nothing.
C9_ScenarioPayout ==
  C9_Scenario =>
    /\ placedBets[3].potential_winnings = 2200
    /\ (bets["betnew1"].status = "settled" /\ bets["betnew1"].winning_option = "A") =>
         /\ users["user123"] = mockUsers["user123"] - 2000 + 2200
         /\ users["user456"] = mockUsers["user456"] - 1000

\* The scenario's bet was settled on A.
C9_Witness ==
  /\ C9_Scenario
  /\ last = Result("settle", Ok)
  /\ bets["betnew1"].status = "settled"
  /\ bets["betnew1"].winning_option = "A"

\* C10: a placeBet that fails leaves balances, bets and PlacedBets as they were; one
\* that succeeds debits the amount, adds it to the option's total_wagered and
\* appends one PlacedBet, all in the same step.
C10_AllOrNothing ==
  [][last'.op = "placeBet" =>
       IF last'.err # Ok
       THEN UNCHANGED <<users, bets, placedBets>>
       ELSE LET pb == placedBets'[Len(placedBets')]
            IN /\ placedBets' = Append(placedBets, pb)
               /\ users' = [users EXCEPT ![pb.user_id] = @ - pb.amount]
               /\ \A betId \in DOMAIN bets : \A k \in DOMAIN bets[betId].bet_options :
                    bets'[betId].bet_options[k].total_wagered =
                      bets[betId].bet_options[k].total_wagered +
                        (IF betId = pb.bet_id /\ k = pb.selected_option THEN pb.amount ELSE 0)]_vars

\* placeBet failed on a closed bet after earlier stakes had gone through.
C10_Witness ==
  /\ last.op = "placeBet" /\ last.err # Ok
  /\ Len(placedBets) > Len(mockPlacedBets)

\* Two calls of one user, issued against the same balance, each affordable alone
\* but not together.
Overlapping(c, d) ==
  /\ c # d
  /\ requests[c].pc # "idle" /\ requests[d].pc # "idle"
  /\ requests[c].user_id = requests[d].user_id
  /\ requests[c].seen_balance = requests[d].seen_balance
  /\ requests[c].amount <= requests[c].seen_balance
  /\ requests[d].amount <= requests[d].seen_balance
  /\ requests[c].amount + requests[d].amount > requests[c].seen_balance

\* C11: of two concurrent placeBet calls of one user, each with amount <= the
\* balance and a sum above it, at most one succeeds, and no balance is negative
\* in any interleaving.
C11_AtomicDebits ==
  /\ \A u \in DOMAIN users : users[u] >= 0
  /\ \A c \in Clients, d \in Clients :
       Overlapping(c, d) => ~(requests[c].err = Ok /\ requests[d].err = Ok)

\* Both overlapping calls have run: one was accepted, the other refused for
\* lack of funds.
C11_Witness ==
  /\ Overlapping("c1", "c2")
  /\ requests["c1"].pc = "settled" /\ requests["c2"].pc = "settled"
  /\ requests["c1"].err = InsufficientFunds
  /\ requests["c2"].err = Ok

\* The store before either client's call ran: the start-up data and the created
\* bet as createBet left it.
StoreAtIssue ==
  [users |-> mockUsers,
   bets |-> [b \in DOMAIN bets |->
               IF b \in DOMAIN mockBets THEN mockBets[b]
               ELSE [bets[b] EXCEPT !.status = "bid",
                                    !.bet_options = FormattedOptions(@)]],
   placedBets |-> mockPlacedBets]

\* The store after the call r is made, alone, on the store S.
SerialStake(S, r) ==
  IF /\ r.bet_id \in DOMAIN S.bets
     /\ r.selected_option \in DOMAIN S.bets[r.bet_id].bet_options
     /\ S.bets[r.bet_id].status \in {"bid", "open"}
     /\ r.user_id \in DOMAIN S.users
     /\ S.users[r.user_id] >= r.amount
  THEN [users |-> [S.users EXCEPT ![r.user_id] = @ - r.amount],
        bets |-> [S.bets EXCEPT ![r.bet_id] = BetAfterStake(@, r.selected_option, r.amount)],
        placedBets |-> Append(S.placedBets,
           [user_id |-> r.user_id, bet_id |-> r.bet_id,
            selected_option |-> r.selected_option, amount |-> r.amount,
            potential_winnings |->
              PotentialWinnings(S.bets[r.bet_id], r.selected_option, r.amount)])]
  ELSE S

\* The amount the settled calls added to an option.
AcceptedOn(betId, k) ==
  SumOver([c \in Clients |->
             [total_wagered |->
                IF /\ requests[c].err = Ok /\ requests[c].bet_id = betId
                   /\ requests[c].selected_option = k
                THEN requests[c].amount ELSE 0]], Clients)

\* C12: once two concurrent placeBet calls of different users on one bet have
\* both run, balances, bets and PlacedBets are those of one of the two serial
\* orders; no stake is lost from total_wagered, the odds come from the final
\* totals, and a bid bet with every option backed is open.
C12_Serialized ==
  \A c \in Clients, d \in Clients :
    (/\ requests[c].pc = "settled" /\ requests[d].pc = "settled"
     /\ requests[c].user_id # requests[d].user_id
     /\ requests[c].bet_id = requests[d].bet_id) =>
      LET b == requests[c].bet_id
          opts == bets[b].bet_options
      IN /\ [users |-> users, bets |-> bets, placedBets |-> placedBets] \in
              {SerialStake(SerialStake(StoreAtIssue, requests[c]), requests[d]),
               SerialStake(SerialStake(StoreAtIssue, requests[d]), requests[c])}
         /\ \A k \in DOMAIN opts :
              /\ opts[k].total_wagered =
                   StoreAtIssue.bets[b].bet_options[k].total_wagered + AcceptedOn(b, k)
              /\ (opts[k].total_wagered > 0 /\ \E j \in DOMAIN opts : AcceptedOn(b, j) > 0) =>
                   opts[k].odds = DynamicOdds(opts[k].total_wagered, TotalWagered(opts))
         /\ (\A k \in DOMAIN opts : opts[k].total_wagered > 0) => bets[b].status = "open"

\* Two users' overlapping calls backed the two options of the created bet, and
\* it opened.
C12_Witness ==
  /\ requests["c1"].pc = "settled" /\ requests["c2"].pc = "settled"
  /\ requests["c1"].err = Ok /\ requests["c2"].err = Ok
  /\ requests["c1"].user_id # requests["c2"].user_id
  /\ requests["c1"].seen_balance = mockUsers[requests["c1"].user_id]
  /\ requests["c2"].seen_balance = mockUsers[requests["c2"].user_id]
  /\ requests["c1"].bet_id = "betnew1" /\ requests["c2"].bet_id = "betnew1"
  /\ requests["c1"].selected_option # requests["c2"].selected_option
  /\ bets["betnew1"].status = "open"

\* C13: placeBet with amount below the minimum_wager set on the bet fails, records
\* no stake and debits nothing.
C13_BelowMinimumRefused ==
  [][\A c \in Clients :
       (/\ runPlaceBet(c)
        /\ requests[c].bet_id \in DOMAIN bets
        /\ bets[requests[c].bet_id].minimum_wager > 0
        /\ requests[c].amount < bets[requests[c].bet_id].minimum_wager)
       => /\ last'.err # Ok
          /\ UNCHANGED <<users, bets, placedBets>>]_vars

\* C14: placeBet and boostOdds with amount <= 0 are rejected with no change of the
\* store, and no staking call raises a balance or lowers a total_wagered.
C14_PositiveAmountsOnly ==
  [][last'.op \in {"placeBet", "boostOdds"} =>
       /\ \A betId \in StakeBetArgs, userId \in AllUserArgs,
             amount \in {a \in AllAmountArgs : a <= 0} :
            \A option \in OptionArgs(betId) :
              (\/ placeBet(betId, userId, option, amount)
               \/ boostOdds(betId, userId, option, amount))
              => /\ last'.err # Ok
                 /\ UNCHANGED <<users, bets, placedBets>>
       /\ \A u \in DOMAIN users : users'[u] <= users[u]
       /\ \A betId \in DOMAIN bets : \A k \in DOMAIN bets[betId].bet_options :
            bets'[betId].bet_options[k].total_wagered >=
              bets[betId].bet_options[k].total_wagered]_vars

\* C15: the bet createBet stores is in status bid and each of its options has
\* total_wagered 0, odds equal to the initial_odds passed for it, and keeps that
\* initial_odds.
C15_CreatedWithInitialOdds ==
  [][last'.op = "createBet" =>
       \A betOptions \in [NewOptionKeys -> InitialOddsArgs],
          betClosingTime \in ClosingTimeArgs, minimumWager \in MinimumWagerArgs :
         createBet("user123", betOptions, betClosingTime, minimumWager) =>
           /\ bets'[generateId].status = "bid"
           /\ \A k \in NewOptionKeys :
                LET opt == bets'[generateId].bet_options[k]
                IN /\ opt.total_wagered = 0
                   /\ opt.odds = betOptions[k]
                   /\ "initial_odds" \in DOMAIN opt
                   /\ opt.initial_odds = betOptions[k]]_vars

\* C16: fireBack on a bet that is not open, or is past its closing time, fails
\* and adds no FireBack.
C16_FireBackOnlyWhileOpen ==
  [][last'.op = "fireBack" =>
       \A betId \in DOMAIN bets :
         ~(bets[betId].status = "open" /\ now <= bets[betId].bet_closing_time) =>
           \A userId \in FireUserArgs, newWager \in FireWagerArgs :
             fireBack(betId, userId, newWager)
             => /\ last'.err # Ok
                /\ fireBacks' = fireBacks]_vars

\* C17: no FireBack has the creator of its bet as its user_id.
C17_CreatorCannotFireBack ==
  \A i \in 1..Len(fireBacks) : fireBacks[i].user_id # bets[fireBacks[i].bet_id].creator_id

\* The amount the creator of the bet has staked on it.
RECURSIVE CreatorStaked(_, _)
CreatorStaked(betId, i) ==
  IF i > Len(placedBets) THEN 0
  ELSE (IF placedBets[i].bet_id = betId /\ placedBets[i].user_id = bets[betId].creator_id
        THEN placedBets[i].amount ELSE 0) + CreatorStaked(betId, i + 1)

\* C18: a FireBack is created only with new_wager above the amount the bet's
\* creator has staked on the bet at that time.
C18_FireBackRaisesStake ==
  [][(last'.op = "fireBack" /\ last'.err = Ok) =>
       LET fb == fireBacks'[Len(fireBacks')]
       IN fb.new_wager > CreatorStaked(fb.bet_id, 1)]_vars

\* C19: a challenger has at most one pending FireBack on a bet.
C19_OnePendingPerChallenger ==
  \A i \in 1..Len(fireBacks), j \in 1..Len(fireBacks) :
    (/\ i # j
     /\ fireBacks[i].user_id = fireBacks[j].user_id
     /\ fireBacks[i].bet_id = fireBacks[j].bet_id)
    => ~(fireBacks[i].status = "pending" /\ fireBacks[j].status = "pending")

C21_ResolvedIsTerminal ==
  [][/\ \A i \in 1..Len(fireBacks) :
          fireBacks[i].status \in {"matched", "declined"} =>
            /\ i <= Len(fireBacks')
            /\ fireBacks'[i].status = fireBacks[i].status
     /\ \A fireBackId \in FireBetArgs, accept \in BOOLEAN :
          (/\ respondToFireBack(fireBackId, accept)
           /\ FindFireBack(fireBackId) # 0
           /\ fireBacks[FindFireBack(fireBackId)].status \in {"matched", "declined"})
          => /\ last'.err # Ok
             /\ fireBacks' = fireBacks]_vars

\* C22: respondToFireBack called with the fire_back_id that fireBack returned
\* for a FireBack resolves that FireBack and no other.
C22_IdResolvesItsFireBack ==
  [][\A i \in 1..Len(fireBacks), accept \in BOOLEAN :
       respondToFireBack(NewFireBackIds[i], accept) =>
         /\ last'.err = Ok
         /\ fireBacks' = [fireBacks EXCEPT ![i].status =
                            IF accept THEN "matched" ELSE "declined"]]_vars

\* What settlement credits the user: the potential_winnings of the user's
\* PlacedBets on the winning option (Ledger.credit takes amounts >= 0).
RECURSIVE Winnings(_, _, _, _)
Winnings(userId, betId, winningOption, i) ==
  IF i > Len(placedBets) THEN 0
  ELSE (IF /\ placedBets[i].user_id = userId /\ placedBets[i].bet_id = betId
           /\ placedBets[i].selected_option = winningOption
           /\ placedBets[i].potential_winnings >= 0
        THEN placedBets[i].potential_winnings ELSE 0)
       + Winnings(userId, betId, winningOption, i + 1)

\* C23: settle on a locked or disputed bet credits every PlacedBet on the winning
\* option its potential_winnings, credits nobody else and sets status settled;
\* settle on a settled bet fails with AlreadySettled and changes no balance and
\* no bet.
C23_SettlementPaysOnce ==
  [][last'.op = "settle" =>
       \A betId \in DOMAIN bets : \A winningOption \in DOMAIN bets[betId].bet_options :
         settle(betId, winningOption) =>
           /\ bets[betId].status \in {"locked", "disputed"} =>
                /\ last'.err = Ok
                /\ bets'[betId].status = "settled"
                /\ bets'[betId].winning_option = winningOption
                /\ \A u \in DOMAIN users :
                     users'[u] = users[u] + Winnings(u, betId, winningOption, 1)
           /\ bets[betId].status = "settled" =>
                /\ last'.err = AlreadySettled
                /\ UNCHANGED <<users, bets, placedBets>>]_vars

\* A second settle on a bet that had paid its winner was refused.
C23_Witness ==
  /\ last = Result("settle", AlreadySettled)
  /\ \E b \in DOMAIN bets :
       /\ bets[b].status = "settled"
       /\ \E i \in 1..Len(placedBets) :
            /\ placedBets[i].bet_id = b
            /\ placedBets[i].selected_option = bets[b].winning_option
            /\ placedBets[i].potential_winnings > 0

\* The moves a bet's status may make.
ForwardMoves ==
  {<<"bid", "open">>, <<"open", "locked">>, <<"locked", "settled">>,
   <<"open", "disputed">>, <<"disputed", "settled">>}

\* C24: every change of a bet's status is one of bid -> open, open -> locked,
\* locked -> settled, open -> disputed, disputed -> settled; a bet becomes open
\* only with every option backed, and no bet disappears.
C24_StatusMovesForward ==
  [][\A betId \in DOMAIN bets :
       /\ betId \in DOMAIN bets'
       /\ \/ bets'[betId].status = bets[betId].status
          \/ <<bets[betId].status, bets'[betId].status>> \in ForwardMoves
       /\ (bets[betId].status = "bid" /\ bets'[betId].status = "open") =>
            \A k \in DOMAIN bets'[betId].bet_options :
              bets'[betId].bet_options[k].total_wagered > 0]_vars

\* The created bet went from bid through open and locked to settled, and a
\* later stake on it was refused.
C24_Witness ==
  /\ "betnew1" \in DOMAIN bets
  /\ bets["betnew1"].status = "settled"
  /\ last = Result("placeBet", NotOpen)

\* C25: placeBet, boostOdds, fireBack and respondToFireBack leave the options of
\* every locked, settled or disputed bet as they were, and a staking call of a
\* positive amount aimed at such a bet debits nobody.
C25_ClosedBetIsFrozen ==
  [][\A betId \in DOMAIN bets :
       bets[betId].status \in {"locked", "settled", "disputed"} =>
         /\ last'.op \in {"fireBack", "respondToFireBack"} =>
              bets'[betId].bet_options = bets[betId].bet_options
         /\ \A userId \in AllUserArgs, amount \in {a \in AllAmountArgs : a > 0} :
              \A option \in DOMAIN bets[betId].bet_options :
                (\/ placeBet(betId, userId, option, amount)
                 \/ boostOdds(betId, userId, option, amount))
                => /\ users' = users
                   /\ bets'[betId].bet_options = bets[betId].bet_options]_vars

\* C26: a successful placeBet appends exactly one PlacedBet and leaves the earlier
\* ones as they were; every other step, failed calls included, leaves the list
\* of PlacedBets unchanged.
C26_PlacedBetsAppendOnly ==
  [][IF last'.op = "placeBet" /\ last'.err = Ok
     THEN /\ Len(placedBets') = Len(placedBets) + 1
          /\ SubSeq(placedBets', 1, Len(placedBets)) = placedBets
     ELSE placedBets' = placedBets]_vars

\* A stake on an option that already had a PlacedBet changed the option's odds
\* and left the earlier PlacedBet as it was.
C26_Witness ==
  /\ last = Result("placeBet", Ok)
  /\ Len(placedBets) = Len(mockPlacedBets) + 1
  /\ placedBets[3].bet_id = "bet002" /\ placedBets[3].selected_option = "Yes"
  /\ placedBets[1] = mockPlacedBets[1]
  /\ bets["bet002"].bet_options["Yes"].odds # mockBets["bet002"].bet_options["Yes"].odds

\* In the bet, an option with less money on it pays at least as much as one with
\* more.
LessMoneyPaysMore(bet) ==
  \A a \in DOMAIN bet.bet_options, b \in DOMAIN bet.bet_options :
    bet.bet_options[a].total_wagered < bet.bet_options[b].total_wagered =>
      bet.bet_options[a].odds >= bet.bet_options[b].odds

\* C27: a bet with total pool > 0 has LessMoneyPaysMore after every placeBet or
\* boostOdds of a positive amount on it.
C27_LessMoneyPaysMore ==
     [][\A betId \in DOMAIN bets, userId \in AllUserArgs,
           amount \in {a \in AllAmountArgs : a > 0} :
          \A option \in DOMAIN bets[betId].bet_options :
            (/\ \/ placeBet(betId, userId, option, amount)
                \/ boostOdds(betId, userId, option, amount)
             /\ last'.err = Ok
             /\ TotalWagered(bets'[betId].bet_options) > 0)
            => LessMoneyPaysMore(bets'[betId])]_vars

\* The sum of the wallet balances.
RECURSIVE SumBalances(_, _)
SumBalances(balances, ids) ==
  IF ids = {} THEN 0
  ELSE LET u == CHOOSE x \in ids : TRUE
       IN balances[u] + SumBalances(balances, ids \ {u})

\* The sum of total_wagered over all options of all bets.
RECURSIVE SumPools(_, _)
SumPools(allBets, ids) ==
  IF ids = {} THEN 0
  ELSE LET b == CHOOSE x \in ids : TRUE
       IN TotalWagered(allBets[b].bet_options) + SumPools(allBets, ids \ {b})

MoneyInSystem(balances, allBets) ==
  SumBalances(balances, DOMAIN balances) + SumPools(allBets, DOMAIN allBets)

\* C28: while no bet is settled, the wallet balances plus the total_wagered of all
\* options add up to what they did at start-up; a successful placeBet or boostOdds
\* lowers exactly one balance by some amount and raises exactly one option's
\* total_wagered by the same amount.
C28_StakingConservesMoney ==
  /\ []((\A b \in DOMAIN bets : bets[b].status # "settled") =>
          MoneyInSystem(users, bets) = MoneyInSystem(mockUsers, mockBets))
  /\ [][(last'.op \in {"placeBet", "boostOdds"} /\ last'.err = Ok) =>
          \E u \in DOMAIN users : \E b \in DOMAIN bets : \E k \in DOMAIN bets[b].bet_options :
            LET a == users[u] - users'[u]
            IN /\ users' = [users EXCEPT ![u] = @ - a]
               /\ \A c \in DOMAIN bets : \A j \in DOMAIN bets[c].bet_options :
                    bets'[c].bet_options[j].total_wagered =
                      bets[c].bet_options[j].total_wagered +
                        (IF c = b /\ j = k THEN a ELSE 0)]_vars

\* A boost and a stake have both gone through and no bet is settled.
C28_Witness ==
  /\ last = Result("boostOdds", Ok)
  /\ Len(placedBets) = Len(mockPlacedBets) + 1
  /\ placedBets[3].amount > 0
  /\ \E u \in DOMAIN users : users[u] < mockUsers[u] - placedBets[3].amount
  /\ \A b \in DOMAIN bets : bets[b].status # "settled"

\* The sum of amount over the PlacedBets on the option of the bet.
RECURSIVE StakedOn(_, _, _, _)
StakedOn(records, betId, k, i) ==
  IF i > Len(records) THEN 0
  ELSE (IF records[i].bet_id = betId /\ records[i].selected_option = k
        THEN records[i].amount ELSE 0) + StakedOn(records, betId, k, i + 1)

\* Every option's total_wagered is the sum of the PlacedBets on it.
PoolIsBacked(bet, betId, records) ==
  \A k \in DOMAIN bet.bet_options :
    bet.bet_options[k].total_wagered = StakedOn(records, betId, k, 1)

\* C29: a created bet whose options' total_wagered equal the sums of their
\* PlacedBets still has that after a placeBet or boostOdds of a positive amount.
C29_PoolBackedByPlacedBets ==
  [][\A betId \in DOMAIN bets \ DOMAIN mockBets, userId \in AllUserArgs,
        amount \in {a \in AllAmountArgs : a > 0} :
       \A option \in DOMAIN bets[betId].bet_options :
         (/\ PoolIsBacked(bets[betId], betId, placedBets)
          /\ \/ placeBet(betId, userId, option, amount)
             \/ boostOdds(betId, userId, option, amount))
         => PoolIsBacked(bets'[betId], betId, placedBets')]_vars

\* The sum of potential_winnings over the PlacedBets on the option of the bet.
RECURSIVE PromisedOn(_, _, _)
PromisedOn(betId, k, i) ==
  IF i > Len(placedBets) THEN 0
  ELSE (IF placedBets[i].bet_id = betId /\ placedBets[i].selected_option = k
        THEN placedBets[i].potential_winnings ELSE 0) + PromisedOn(betId, k, i + 1)

\* C30: for every option of a created bet (here one without a minimum wager),
\* the potential_winnings of the PlacedBets on it add up to no more than the
\* bet's total pool.
C30_PoolCoversPayout ==
  \A betId \in DOMAIN bets \ DOMAIN mockBets :
    bets[betId].minimum_wager = 0 =>
      \A k \in DOMAIN bets[betId].bet_options :
        PromisedOn(betId, k, 1) <= TotalWagered(bets[betId].bet_options)

====
